---- MODULE Spec2Model ----
(***************************************************************************)
(* Model of packages/calendar/src/compute.js (nivo calendar layout).       *)
(*                                                                         *)
(* Numbers are exact rationals <<n, d>> (d > 0, lowest terms), and the     *)
(* layouts explored have arguments for which every number the code         *)
(* computes on the way to a path, a box or a cache key is one binary64     *)
(* holds exactly; the sizes of the calendar are also computed in binary64  *)
(* arithmetic, with its rounding (SpecSizes).  A Date is                   *)
(* the number of whole days since 1970-01-01 (local midnight, a time zone  *)
(* without offset changes), so that `new Date(y, m, d)`, getDay(),         *)
(* getMonth(), the d3-time intervals and the two formatters are computed   *)
(* from the day number the way the libraries compute them.                 *)
(***************************************************************************)
EXTENDS Integers, Sequences, FiniteSets, TLC

VARIABLES cache, layout, days, bound, probe

vars == <<cache, layout, days, bound, probe>>

(***************************************************************************)
(* Numbers                                                                 *)
(***************************************************************************)
Abs(n) == IF n < 0 THEN -n ELSE n

RECURSIVE GCD(_, _)
GCD(a, b) == IF b = 0 THEN a ELSE GCD(b, a % b)

\* the rational n/d in lowest terms, d # 0
Rat(n, d) ==
    IF d = 1 THEN <<n, 1>>
    ELSE LET s == IF d < 0 THEN -1 ELSE 1
             g == GCD(Abs(n), Abs(d))
         IN  <<(s * n) \div g, (s * d) \div g>>

Num(i) == <<i, 1>>
\* (an integer plus a fraction in lowest terms is in lowest terms)
RAdd(a, b) ==
    IF a[2] = 1 THEN <<a[1] * b[2] + b[1], b[2]>>
    ELSE IF b[2] = 1 THEN <<a[1] + b[1] * a[2], a[2]>>
    ELSE Rat(a[1] * b[2] + b[1] * a[2], a[2] * b[2])
RNeg(a) == <<-a[1], a[2]>>
RSub(a, b) == RAdd(a, RNeg(b))
RMul(a, b) == Rat(a[1] * b[1], a[2] * b[2])
RDiv(a, b) == Rat(a[1] * b[2], a[2] * b[1])
RLt(a, b) == a[1] * b[2] < b[1] * a[2]
RLeq(a, b) == a[1] * b[2] <= b[1] * a[2]
RMin(a, b) == IF RLt(b, a) THEN b ELSE a
RMax(a, b) == IF RLt(a, b) THEN b ELSE a
Zero == Num(0)

(***************************************************************************)
(* binary64 numbers from 0 up to 2^31, as their integer part and the bits  *)
(* after the binary point (no trailing zero), with the operations of the   *)
(* size computations rounded to nearest, ties to even                      *)
(***************************************************************************)
F64(int, frac) == [int |-> int, frac |-> frac]

RECURSIVE BitLength(_)
BitLength(n) == IF n = 0 THEN 0 ELSE 1 + BitLength(n \div 2)

RECURSIVE LeadingZeros(_)
LeadingZeros(bits) ==
    IF bits = <<>> \/ Head(bits) = 1 THEN 0 ELSE 1 + LeadingZeros(Tail(bits))

\* the bits without the zeros that end them
StripZeros(bits) ==
    IF \A k \in DOMAIN bits : bits[k] = 0 THEN <<>>
    ELSE SubSeq(bits, 1, CHOOSE k \in DOMAIN bits :
                              /\ bits[k] = 1
                              /\ \A j \in (k + 1)..Len(bits) : bits[j] = 0)

\* the bits after the binary point that the 53 bit significand has room for
FractionBitsKept(int, frac) ==
    IF int > 0 THEN 53 - BitLength(int) ELSE 53 + LeadingZeros(frac)

\* one more in the last place of the bits, and the carry out of them
Increment(bits) ==
    IF \A k \in DOMAIN bits : bits[k] = 1
    THEN [bits |-> [k \in DOMAIN bits |-> 0], carry |-> 1]
    ELSE LET flip(last) ==
                 [bits |-> [k \in DOMAIN bits |->
                               IF k < last THEN bits[k] ELSE IF k = last THEN 1 ELSE 0],
                  carry |-> 0]
         IN  flip(CHOOSE k \in DOMAIN bits :
                      /\ bits[k] = 0
                      /\ \A j \in (k + 1)..Len(bits) : bits[j] = 1)

\* the binary64 nearest to int + 0.frac (+ something below the last bit of frac
\* when sticky), the one with an even significand of the two when half way
F64Round(int, frac, sticky) ==
    LET bit(k) == IF k \in DOMAIN frac THEN frac[k] ELSE 0
        rounded(p) ==
            LET kept == [k \in 1..p |-> bit(k)]
                up(r) == F64(int + r.carry, StripZeros(r.bits))
            IN  IF /\ bit(p + 1) = 1
                   /\ \/ sticky
                      \/ \E k \in (p + 2)..Len(frac) : frac[k] = 1
                      \/ (IF p = 0 THEN int % 2 ELSE bit(p)) = 1
                THEN up(Increment(kept))
                ELSE F64(int, StripZeros(kept))
    IN  rounded(FractionBitsKept(int, frac))

\* 2^k modulo m
RECURSIVE Pow2Mod(_, _)
Pow2Mod(k, m) ==
    IF k = 0 THEN 1 % m
    ELSE LET square(h) == (h * h * (IF k % 2 = 1 THEN 2 ELSE 1)) % m
         IN  square(Pow2Mod(k \div 2, m))

\* the first len bits after the binary point of r / m, for r < m < 2^15
QuotientBits(r, m, len) ==
    [k \in 1..len |-> (2 * ((r * Pow2Mod(k - 1, m)) % m)) \div m]

\* n / m for integers n >= 0 and 0 < m < 2^15: the quotient to more bits than
\* the significand holds, and whether something is left below them, rounded
F64Div(n, m) ==
    LET quotient(len) ==
            F64Round(n \div m, QuotientBits(n % m, m, len),
                     ((n % m) * Pow2Mod(len, m)) % m # 0)
    IN  quotient(54 + BitLength(m))

\* the carry out of place k of the bits after the binary point times m
RECURSIVE TimesCarry(_, _, _)
TimesCarry(bits, m, k) ==
    IF k > Len(bits) THEN 0 ELSE (bits[k] * m + TimesCarry(bits, m, k + 1)) \div 2

\* x * m for an integer m >= 0
F64Times(x, m) ==
    F64Round(x.int * m + TimesCarry(x.frac, m, 1),
             [k \in DOMAIN x.frac |-> (x.frac[k] * m + TimesCarry(x.frac, m, k + 1)) % 2],
             FALSE)

\* x + k for an integer k >= 0
F64Plus(x, k) == F64Round(x.int + k, x.frac, FALSE)

F64Less(x, y) ==
    \/ x.int < y.int
    \/ /\ x.int = y.int
       /\ \E k \in DOMAIN y.frac :
             /\ y.frac[k] = 1
             /\ (k \in DOMAIN x.frac => x.frac[k] = 0)
             /\ \A j \in 1..(k - 1) :
                   (IF j \in DOMAIN x.frac THEN x.frac[j] ELSE 0) = y.frac[j]

\* Math.min
F64Min(x, y) == IF F64Less(y, x) THEN y ELSE x

\* x <= w for an integer w
F64LeqInt(x, w) == x.int < w \/ (x.int = w /\ x.frac = <<>>)

(***************************************************************************)
(* Number and date formatting                                              *)
(***************************************************************************)
Digit(n) == <<"0", "1", "2", "3", "4", "5", "6", "7", "8", "9">>[n + 1]

RECURSIVE NatToString(_)
NatToString(n) ==
    IF n < 10 THEN Digit(n) ELSE NatToString(n \div 10) \o Digit(n % 10)

\* the decimal digits of r/d (0 <= r < d), at most k of them
RECURSIVE FractionDigits(_, _, _)
FractionDigits(r, d, k) ==
    IF r = 0 \/ k = 0 THEN ""
    ELSE Digit((r * 10) \div d) \o FractionDigits((r * 10) % d, d, k - 1)

\* the digits a Number prints after the decimal point, at most
MaxFractionDigits == 17

\* `${x}` for a Number x: sign, integer part, and the fraction when there is one
NumberToString(x) ==
    LET n == Abs(x[1])
        d == x[2]
    IN  (IF x[1] < 0 THEN "-" ELSE "")
            \o NatToString(n \div d)
            \o (IF n % d = 0 THEN ""
                ELSE "." \o FractionDigits(n % d, d, MaxFractionDigits))

Pad2(n) == IF n < 10 THEN "0" \o Digit(n) ELSE NatToString(n)

Pad4(n) ==
    IF n < 1000
    THEN "0" \o Digit(n \div 100) \o Pad2(n % 100)
    ELSE NatToString(n \div 100) \o Pad2(n % 100)

(***************************************************************************)
(* Date: the number of days since 1970-01-01                               *)
(***************************************************************************)
IsLeapYear(y) == (y % 4 = 0 /\ y % 100 # 0) \/ y % 400 = 0

DaysInYear(y) == IF IsLeapYear(y) THEN 366 ELSE 365

\* number of leap years in 1..y
LeapYearsThrough(y) == (y \div 4) - (y \div 100) + (y \div 400)

\* day number of January 1st of year y
DayFromYear(y) ==
    365 * (y - 1970) + LeapYearsThrough(y - 1) - LeapYearsThrough(1969)

\* 1 in a leap year, 0 otherwise
InLeapYear(y) == IF IsLeapYear(y) THEN 1 ELSE 0

\* number of days of year y before its month m (0 = January)
DaysBeforeMonth(y, m) ==
    <<0, 31, 59, 90, 120, 151, 181, 212, 243, 273, 304, 334, 365>>[m + 1]
        + (IF m >= 2 THEN InLeapYear(y) ELSE 0)

\* new Date(year, monthIndex, day): monthIndex may run past 11 and day may be 0
NewDate(year, monthIndex, day) ==
    LET y == year + (monthIndex \div 12)
        m == monthIndex % 12
    IN  DayFromYear(y) + DaysBeforeMonth(y, m) + day - 1

getFullYear(t) ==
    LET y0 == 1970 + (t \div 365)
    IN  IF DayFromYear(y0) <= t THEN y0 ELSE y0 - 1

\* the month in which day n (0 = January 1st) of a year falls; leap is 1 or 0
MonthOfDay(n, leap) ==
    IF n < 181 + leap
    THEN (IF n < 31 THEN 0
          ELSE IF n < 59 + leap THEN 1
          ELSE IF n < 90 + leap THEN 2
          ELSE IF n < 120 + leap THEN 3
          ELSE IF n < 151 + leap THEN 4
          ELSE 5)
    ELSE (IF n < 212 + leap THEN 6
          ELSE IF n < 243 + leap THEN 7
          ELSE IF n < 273 + leap THEN 8
          ELSE IF n < 304 + leap THEN 9
          ELSE IF n < 334 + leap THEN 10
          ELSE 11)

getMonth(t) ==
    LET y == getFullYear(t)
    IN  MonthOfDay(t - DayFromYear(y), InLeapYear(y))

getDate(t) ==
    LET y == getFullYear(t)
        n == t - DayFromYear(y)
    IN  n - DaysBeforeMonth(y, MonthOfDay(n, InLeapYear(y))) + 1

\* 0 = Sunday; 1970-01-01 was a Thursday
getDay(t) == (t + 4) % 7

DayName(w) == <<"Sun", "Mon", "Tue", "Wed", "Thu", "Fri", "Sat">>[w + 1]

MonthName(m) ==
    <<"Jan", "Feb", "Mar", "Apr", "May", "Jun",
      "Jul", "Aug", "Sep", "Oct", "Nov", "Dec">>[m + 1]

\* date.toString()
DateToString(t) ==
    DayName(getDay(t)) \o " " \o MonthName(getMonth(t)) \o " "
        \o Pad2(getDate(t)) \o " " \o Pad4(getFullYear(t))
        \o " 00:00:00 GMT+0000 (Coordinated Universal Time)"

\* timeFormat('%Y-%m-%d')
dayFormat(t) ==
    Pad4(getFullYear(t)) \o "-" \o Pad2(getMonth(t) + 1) \o "-" \o Pad2(getDate(t))

(***************************************************************************)
(* d3-time intervals                                                       *)
(***************************************************************************)
\* timeYear(date): the interval's floor, January 1st of the date's year
timeYear(t) == DayFromYear(getFullYear(t))

\* floor of the week interval that starts on weekday i
WeekFloor(i, t) == t - ((getDay(t) + 7 - i) % 7)

\* ceil of the week interval that starts on weekday i
WeekCeil(i, t) == IF WeekFloor(i, t) = t THEN t ELSE WeekFloor(i, t) + 7

\* interval.count(start, end) of the week interval that starts on weekday i
WeekCount(i, start, end) == (WeekFloor(i, end) - WeekFloor(i, start)) \div 7

\* interval.range(start, stop) of the week interval that starts on weekday i
RECURSIVE WeekRangeFrom(_, _)
WeekRangeFrom(t, stop) ==
    IF t < stop THEN <<t>> \o WeekRangeFrom(t + 7, stop) ELSE <<>>

WeekRange(i, start, stop) == WeekRangeFrom(WeekCeil(i, start), stop)

\* timeDays taken to include stop
timeDaysThroughStop(start, stop) == [k \in 1..(stop - start + 1) |-> start + k - 1]

\* timeDays(start, stop)
timeDays(start, stop) == [k \in 1..(stop - start) |-> start + k - 1]

\* timeMonths(start, stop) for start the first of a month
RECURSIVE timeMonths(_, _)
timeMonths(start, stop) ==
    IF start < stop
    THEN <<start>> \o timeMonths(NewDate(getFullYear(start), getMonth(start) + 1, 1), stop)
    ELSE <<>>

(***************************************************************************)
(* compute.js                                                              *)
(***************************************************************************)
Undefined == <<>>

\* Array.prototype.slice(start) on a sequence
\* slice that takes a negative start for the start of the array
SliceFromStart(seq, start) ==
    SubSeq(seq, (IF start < 0 THEN 0 ELSE IF start < Len(seq) THEN start ELSE Len(seq)) + 1,
           Len(seq))

Slice(seq, start) ==
    LET len == Len(seq)
        k == IF start < 0
             THEN (IF len + start < 0 THEN 0 ELSE len + start)
             ELSE (IF start < len THEN start ELSE len)
    IN  SubSeq(seq, k + 1, len)

getDayIndex(date, firstDayOfWeek) ==
    LET daysOfWeek == <<0, 1, 2, 3, 4, 5, 6>>
        day == getDay(date)
        offsetDay == day - firstDayOfWeek
        rest == Slice(daysOfWeek, offsetDay)
    IN  IF rest = <<>> THEN Undefined ELSE Head(rest)

\* the weekday on which the chosen d3 week interval starts
getTimeInterval(firstDayOfWeek) ==
    IF firstDayOfWeek \in 1..6 THEN firstDayOfWeek ELSE 0

computeCellSize(width, height, direction, yearRange, yearSpacing, daySpacing, maxWeeks) ==
    LET alongWeeks(size, mw) == RDiv(RSub(size, RMul(daySpacing, mw)), mw)
        alongYears(size, n, n1) ==
            RDiv(RSub(RSub(size, RMul(n1, yearSpacing)),
                      RMul(n, RMul(Num(8), daySpacing))),
                 RMul(n, Num(7)))
        cells(hCellSize, vCellSize) == RMin(hCellSize, vCellSize)
        sized(n, n1, mw) ==
            IF direction = "horizontal"
            THEN cells(alongWeeks(width, mw), alongYears(height, n, n1))
            ELSE cells(alongYears(width, n, n1), alongWeeks(height, mw))
    IN  sized(Num(Len(yearRange)), Num(Len(yearRange) - 1), Num(maxWeeks))

\* computeCellSize in binary64 arithmetic, for integer sizes and spacings that
\* leave no candidate negative (the differences and products of the integers
\* are exact)
computeCellSize64(width, height, direction, yearRange, yearSpacing, daySpacing, maxWeeks) ==
    LET alongWeeks(size) == F64Div(size - daySpacing * maxWeeks, maxWeeks)
        alongYears(size) ==
            F64Div(size - (Len(yearRange) - 1) * yearSpacing
                        - Len(yearRange) * (8 * daySpacing),
                   Len(yearRange) * 7)
    IN  IF direction = "horizontal"
        THEN F64Min(alongWeeks(width), alongYears(height))
        ELSE F64Min(alongYears(width), alongWeeks(height))

\* t1 as the first day of the following month
monthT1NextMonth(date) == NewDate(getFullYear(date), getMonth(date) + 1, 1)

\* t1 of monthPathAndBBox
monthT1(date) == NewDate(getFullYear(date), getMonth(date) + 1, 0)

\* firstWeek, lastWeek, firstDay, lastDay of monthPathAndBBox
monthRanges(date, firstDayOfWeek) ==
    LET ranges(t1, timeInterval) ==
            [firstWeek |-> WeekCount(timeInterval, timeYear(date), date),
             lastWeek |-> WeekCount(timeInterval, timeYear(t1), t1),
             firstDay |-> getDayIndex(date, firstDayOfWeek),
             lastDay |-> getDayIndex(t1, firstDayOfWeek)]
    IN  ranges(monthT1(date), getTimeInterval(firstDayOfWeek))

\* the origin without the year's offset
monthOriginOfFirstYear(a) == [xO |-> a.originX, yO |-> a.originY]

\* xO, yO of monthPathAndBBox: the origin moved by the year's offset
monthOrigin(a) ==
    LET moved(yearOffset) ==
            IF a.direction = "horizontal"
            THEN [xO |-> a.originX, yO |-> RAdd(a.originY, yearOffset)]
            ELSE [xO |-> RAdd(a.originX, yearOffset), yO |-> a.originY]
    IN  moved(RMul(Num(a.yearIndex),
                   RAdd(RMul(Num(7), RAdd(a.cellSize, a.daySpacing)), a.yearSpacing)))

\* the commands of the path of monthPathAndBBox, in order, from the ranges r,
\* the origin o and step = cellSize + daySpacing
pathCommands(direction, r, o, step) ==
    LET X(k) == RAdd(o.xO, RMul(Num(k), step))
        Y(k) == RAdd(o.yO, RMul(Num(k), step))
        M(x, y) == [op |-> "M", x |-> x, y |-> y]
        H(x) == [op |-> "H", x |-> x]
        V(y) == [op |-> "V", y |-> y]
        Z == [op |-> "Z"]
    IN  IF direction = "horizontal"
        THEN << M(X(r.firstWeek + 1), Y(r.firstDay)),
                H(X(r.firstWeek)), V(Y(7)),
                H(X(r.lastWeek)), V(Y(r.lastDay + 1)),
                H(X(r.lastWeek + 1)), V(o.yO),
                H(X(r.firstWeek + 1)), Z >>
        ELSE << M(X(r.firstDay), Y(r.firstWeek + 1)),
                H(o.xO), V(Y(r.lastWeek + 1)),
                H(X(r.lastDay + 1)), V(Y(r.lastWeek)),
                H(X(7)), V(Y(r.firstWeek)),
                H(X(r.firstDay)), Z >>

monthPathCommands(a) ==
    pathCommands(a.direction, monthRanges(a.date, a.firstDayOfWeek), monthOrigin(a),
                 RAdd(a.cellSize, a.daySpacing))

\* the template literals and join('') that turn the commands into the path string
RECURSIVE PathString(_)
PathString(cmds) ==
    IF cmds = <<>> THEN ""
    ELSE LET text(c) ==
                 CASE c.op = "M" -> "M" \o NumberToString(c.x) \o "," \o NumberToString(c.y)
                   [] c.op = "H" -> "H" \o NumberToString(c.x)
                   [] c.op = "V" -> "V" \o NumberToString(c.y)
                   [] c.op = "Z" -> "Z"
         IN  text(Head(cmds)) \o PathString(Tail(cmds))

\* the bbox ended where the month's last week starts
pathBBoxToLastWeek(direction, r, o, step) ==
    LET week(k) == RMul(Num(k), step)
    IN  IF direction = "horizontal"
        THEN [x |-> RAdd(o.xO, week(r.firstWeek)), y |-> o.yO,
              width |-> week(r.lastWeek - r.firstWeek), height |-> week(7)]
        ELSE [x |-> o.xO, y |-> RAdd(o.yO, week(r.firstWeek)),
              width |-> week(7), height |-> week(r.lastWeek - r.firstWeek)]

\* bbox of monthPathAndBBox, from the ranges r, the origin o and step
pathBBox(direction, r, o, step) ==
    LET week(k) == RMul(Num(k), step)
        across == RMul(Num(7), step)
        horizontal(x) ==
            [x |-> x, y |-> o.yO,
             width |-> RSub(RAdd(o.xO, week(r.lastWeek + 1)), x),
             height |-> across]
        vertical(y) ==
            [x |-> o.xO, y |-> y,
             width |-> across,
             height |-> RSub(RAdd(o.yO, week(r.lastWeek + 1)), y)]
    IN  IF direction = "horizontal"
        THEN horizontal(RAdd(o.xO, week(r.firstWeek)))
        ELSE vertical(RAdd(o.yO, week(r.firstWeek)))

monthBBox(a) ==
    pathBBox(a.direction, monthRanges(a.date, a.firstDayOfWeek), monthOrigin(a),
             RAdd(a.cellSize, a.daySpacing))

monthPathAndBBox(a) ==
    LET both(r, o, step) ==
            [path |-> PathString(pathCommands(a.direction, r, o, step)),
             bbox |-> pathBBox(a.direction, r, o, step)]
    IN  both(monthRanges(a.date, a.firstDayOfWeek), monthOrigin(a),
             RAdd(a.cellSize, a.daySpacing))

\* the resolver given to memoize: the cache key of an argument record
memoKey(a) ==
    DateToString(a.date) \o "." \o NumberToString(a.cellSize)
        \o "." \o NatToString(a.yearIndex)
        \o "." \o NumberToString(a.yearSpacing)
        \o "." \o NumberToString(a.daySpacing)
        \o "." \o a.direction
        \o "." \o NumberToString(a.originX)
        \o "." \o NumberToString(a.originY)
        \o "." \o NatToString(a.firstDayOfWeek)

\* memoize(monthPathAndBBox, resolver) called on a with cache c: the value
\* returned and the cache afterwards
memoMonthPathAndBBox(c, a) ==
    LET set(key, result) ==
            [value |-> result,
             cache |-> [k \in DOMAIN c \cup {key} |-> IF k = key THEN result ELSE c[k]]]
        memoized(key) ==
            IF key \in DOMAIN c
            THEN [value |-> c[key], cache |-> c]
            ELSE set(key, monthPathAndBBox(a))
    IN  memoized(memoKey(a))

\* the position of the day cell in column (or row) weekOfYear and row (or column)
\* dayIndex, for step = cellSize + daySpacing and half = daySpacing / 2
cellPositionHorizontal(cellSize, yearSpacing, daySpacing, firstDayOfWeek, originX, originY, d, yearIndex) ==
    LET at(weekOfYear, dayIndex, step, half) ==
            [x |-> RAdd(RAdd(originX, RMul(Num(weekOfYear), step)), half),
             y |-> RAdd(RAdd(RAdd(originY, RMul(Num(dayIndex), step)), half),
                        RMul(Num(yearIndex), RAdd(yearSpacing, RMul(Num(7), step))))]
    IN  at(WeekCount(getTimeInterval(firstDayOfWeek), timeYear(d), d),
           getDayIndex(d, firstDayOfWeek),
           RAdd(cellSize, daySpacing), RDiv(daySpacing, Num(2)))

cellPositionVertical(cellSize, yearSpacing, daySpacing, firstDayOfWeek, originX, originY, d, yearIndex) ==
    LET at(weekOfYear, dayIndex, step, half) ==
            [x |-> RAdd(RAdd(RAdd(originX, RMul(Num(dayIndex), step)), half),
                        RMul(Num(yearIndex), RAdd(yearSpacing, RMul(Num(7), step)))),
             y |-> RAdd(RAdd(originY, RMul(Num(weekOfYear), step)), half)]
    IN  at(WeekCount(getTimeInterval(firstDayOfWeek), timeYear(d), d),
           getDayIndex(d, firstDayOfWeek),
           RAdd(cellSize, daySpacing), RDiv(daySpacing, Num(2)))

\* alignBox of @nivo/core: the offset of box inside container
alignBox(box, container, alignment) ==
    LET half(v) == RDiv(v, Num(2))
        offset(deltaX, deltaY) ==
            CASE alignment = "center" -> <<half(deltaX), half(deltaY)>>
              [] alignment = "top" -> <<half(deltaX), Zero>>
              [] alignment = "top-right" -> <<deltaX, Zero>>
              [] alignment = "right" -> <<deltaX, half(deltaY)>>
              [] alignment = "bottom-right" -> <<deltaX, deltaY>>
              [] alignment = "bottom" -> <<half(deltaX), deltaY>>
              [] alignment = "bottom-left" -> <<Zero, deltaY>>
              [] alignment = "left" -> <<Zero, half(deltaY)>>
              [] OTHER -> <<Zero, Zero>>
    IN  offset(RSub(container.width, box.width), RSub(container.height, box.height))

\* lodash range(start, end)
range(start, end) == [k \in 1..(end - start) |-> start + k - 1]

RECURSIVE MaxOf(_)
MaxOf(seq) ==
    IF Len(seq) = 1 THEN seq[1]
    ELSE LET larger(m) == IF seq[1] > m THEN seq[1] ELSE m
         IN  larger(MaxOf(Tail(seq)))

\* maxWeeks of computeLayout
maxWeeksOf(yearRange, firstDayOfWeek) ==
    MaxOf([k \in DOMAIN yearRange |->
              Len(WeekRange(getTimeInterval(firstDayOfWeek),
                            NewDate(yearRange[k], 0, 1),
                            NewDate(yearRange[k] + 1, 0, 1)))]) + 1

\* the argument record computeLayout hands to memoMonthPathAndBBox
monthArgs(L, monthDate, i) ==
    [originX |-> L.originX,
     originY |-> L.originY,
     date |-> monthDate,
     direction |-> L.direction,
     yearIndex |-> i,
     yearSpacing |-> L.yearSpacing,
     daySpacing |-> L.daySpacing,
     cellSize |-> L.cellSize,
     firstDayOfWeek |-> L.firstDayOfWeek]

\* timeMonths(yearStart, yearEnd).map(...) of computeLayout, threading the cache
RECURSIVE mapMonths(_, _, _, _)
mapMonths(c, monthDates, L, i) ==
    IF monthDates = <<>> THEN [months |-> <<>>, cache |-> c]
    ELSE LET monthOf(monthDate, value) ==
                 [date |-> monthDate,
                  year |-> getFullYear(monthDate),
                  month |-> getMonth(monthDate),
                  path |-> value.path,
                  bbox |-> value.bbox]
             prepend(month, rest) ==
                 [months |-> <<month>> \o rest.months, cache |-> rest.cache]
             next(r) ==
                 prepend(monthOf(Head(monthDates), r.value),
                         mapMonths(r.cache, Tail(monthDates), L, i))
         IN  next(memoMonthPathAndBBox(c, monthArgs(L, Head(monthDates), i)))

\* timeDays(yearStart, yearEnd).map(...) of computeLayout
mapDays(dayDates, L, i) ==
    LET dayOf(dayDate, pos) ==
            [date |-> dayDate,
             day |-> dayFormat(dayDate),
             size |-> L.cellSize,
             x |-> pos.x,
             y |-> pos.y,
             value |-> Undefined,
             color |-> Undefined,
             data |-> Undefined]
        cellPosition(d) ==
            IF L.direction = "horizontal"
            THEN cellPositionHorizontal(L.cellSize, L.yearSpacing, L.daySpacing,
                     L.firstDayOfWeek, L.originX, L.originY, d, i)
            ELSE cellPositionVertical(L.cellSize, L.yearSpacing, L.daySpacing,
                     L.firstDayOfWeek, L.originX, L.originY, d, i)
    IN  [k \in DOMAIN dayDates |-> dayOf(dayDates[k], cellPosition(dayDates[k]))]

\* the Year record pushed for the months of one year
yearOf(year, yearMonths) ==
    [year |-> year,
     bbox |-> [x |-> yearMonths[1].bbox.x,
               y |-> yearMonths[1].bbox.y,
               width |-> RAdd(RSub(yearMonths[12].bbox.x, yearMonths[1].bbox.x),
                              yearMonths[12].bbox.width),
               height |-> RAdd(RSub(yearMonths[12].bbox.y, yearMonths[1].bbox.y),
                               yearMonths[12].bbox.height)]]

\* yearRange.forEach((year, i) => ...) of computeLayout from index k on
RECURSIVE forEachYear(_, _, _, _)
forEachYear(c, yearRange, L, k) ==
    IF k > Len(yearRange)
    THEN [years |-> <<>>, months |-> <<>>, days |-> <<>>, cache |-> c]
    ELSE LET push(year, yearMonths, yearDays, rest) ==
                 [years |-> <<yearOf(year, yearMonths)>> \o rest.years,
                  months |-> yearMonths \o rest.months,
                  days |-> yearDays \o rest.days,
                  cache |-> rest.cache]
             each(year, yearStart, yearEnd, m) ==
                 push(year, m.months, mapDays(timeDays(yearStart, yearEnd), L, k - 1),
                      forEachYear(m.cache, yearRange, L, k + 1))
             months(yearStart, yearEnd) ==
                 each(yearRange[k], yearStart, yearEnd,
                      mapMonths(c, timeMonths(yearStart, yearEnd), L, k - 1))
         IN  months(NewDate(yearRange[k], 0, 1), NewDate(yearRange[k] + 1, 0, 1))

\* computeLayout(a) with the memoization cache c: the layout returned (with the
\* arguments and the locals yearRange and maxWeeks kept beside it), the day
\* records created and the cache afterwards
computeLayout(c, a) ==
    LET returned(yearRange, maxWeeks, cellSize, calendarWidth, calendarHeight, origin, r) ==
            [layout |-> [called |-> TRUE,
                         args |-> a,
                         yearRange |-> yearRange,
                         maxWeeks |-> maxWeeks,
                         years |-> r.years,
                         months |-> r.months,
                         cellSize |-> cellSize,
                         calendarWidth |-> calendarWidth,
                         calendarHeight |-> calendarHeight,
                         originX |-> origin[1],
                         originY |-> origin[2]],
             days |-> r.days,
             cache |-> r.cache]
        placed(yearRange, maxWeeks, cellSize, calendarWidth, calendarHeight, origin) ==
            returned(yearRange, maxWeeks, cellSize, calendarWidth, calendarHeight, origin,
                     forEachYear(c, yearRange,
                                 [cellSize |-> cellSize,
                                  originX |-> origin[1], originY |-> origin[2],
                                  direction |-> a.direction,
                                  yearSpacing |-> a.yearSpacing,
                                  daySpacing |-> a.daySpacing,
                                  firstDayOfWeek |-> a.firstDayOfWeek],
                                 1))
        aligned(yearRange, maxWeeks, cellSize, calendarWidth, calendarHeight) ==
            placed(yearRange, maxWeeks, cellSize, calendarWidth, calendarHeight,
                   alignBox([x |-> Zero, y |-> Zero,
                             width |-> calendarWidth, height |-> calendarHeight],
                            [x |-> Zero, y |-> Zero,
                             width |-> a.width, height |-> a.height],
                            a.align))
        sized(yearRange, maxWeeks, cellSize, monthsSize, yearsSize) ==
            aligned(yearRange, maxWeeks, cellSize,
                    IF a.direction = "horizontal" THEN monthsSize ELSE yearsSize,
                    IF a.direction = "horizontal" THEN yearsSize ELSE monthsSize)
        celled(yearRange, maxWeeks, cellSize) ==
            sized(yearRange, maxWeeks, cellSize,
                  RAdd(RMul(cellSize, Num(maxWeeks)), RMul(a.daySpacing, Num(maxWeeks))),
                  RAdd(RMul(RMul(RAdd(cellSize, a.daySpacing), Num(7)), Num(Len(yearRange))),
                       RMul(a.yearSpacing, Num(Len(yearRange) - 1))))
        weeked(yearRange, maxWeeks) ==
            celled(yearRange, maxWeeks,
                   computeCellSize(a.width, a.height, a.direction, yearRange,
                                   a.yearSpacing, a.daySpacing, maxWeeks))
        ranged(yearRange) == weeked(yearRange, maxWeeksOf(yearRange, a.firstDayOfWeek))
    IN  ranged(range(getFullYear(a.from), getFullYear(a.to) + 1))

\* computeLayout up to calendarWidth and calendarHeight in binary64 arithmetic,
\* for integer sizes and spacings: yearRange, maxWeeks, cellSize, monthsSize and
\* yearsSize
computeLayoutSizes64(a) ==
    LET returned(yearRange, maxWeeks, cellSize, monthsSize, yearsSize) ==
            [yearRange |-> yearRange,
             maxWeeks |-> maxWeeks,
             cellSize |-> cellSize,
             calendarWidth |-> IF a.direction = "horizontal" THEN monthsSize ELSE yearsSize,
             calendarHeight |-> IF a.direction = "horizontal" THEN yearsSize ELSE monthsSize]
        celled(yearRange, maxWeeks, cellSize) ==
            returned(yearRange, maxWeeks, cellSize,
                     F64Plus(F64Times(cellSize, maxWeeks), a.daySpacing * maxWeeks),
                     F64Plus(F64Times(F64Times(F64Plus(cellSize, a.daySpacing), 7),
                                      Len(yearRange)),
                             a.yearSpacing * (Len(yearRange) - 1)))
        weeked(yearRange, maxWeeks) ==
            celled(yearRange, maxWeeks,
                   computeCellSize64(a.width, a.height, a.direction, yearRange,
                                     a.yearSpacing, a.daySpacing, maxWeeks))
        ranged(yearRange) == weeked(yearRange, maxWeeksOf(yearRange, a.firstDayOfWeek))
    IN  ranged(range(getFullYear(a.from), getFullYear(a.to) + 1))

\* colorScale: the caller's function from a value to a colour
colorScale(scale, value) == scale[value]

\* the callback taking the first data record of the day, not the last
bindDayToFirstRecord(day, data, scale) ==
    IF \E j \in DOMAIN data : data[j].day = day.day
    THEN LET first == CHOOSE j \in DOMAIN data :
                         /\ data[j].day = day.day
                         /\ \A i \in 1..(j - 1) : data[i].day # day.day
         IN  [day EXCEPT !.value = <<data[first].value>>,
                         !.color = <<colorScale(scale, data[first].value)>>,
                         !.data = <<data[first]>>]
    ELSE day

\* data.forEach(dayData => ...) of bindDaysData on one day record
RECURSIVE bindDay(_, _, _)
bindDay(day, data, scale) ==
    IF data = <<>> THEN day
    ELSE LET each(dayData) ==
                 IF dayData.day = day.day
                 THEN [day EXCEPT !.value = <<dayData.value>>,
                                  !.color = <<colorScale(scale, dayData.value)>>,
                                  !.data = <<dayData>>]
                 ELSE day
         IN  bindDay(each(Head(data)), Tail(data), scale)

\* bindDaysData: days.map(day => ...) on the day objects ds: the objects after
\* the callback changed them in place (objects), and the array returned, which
\* holds for each element the place in ds of the object the callback returns
bindDaysData(ds, data, scale, emptyColor) ==
    [objects |-> [k \in DOMAIN ds |->
                     bindDay([ds[k] EXCEPT !.color = <<emptyColor>>], data, scale)],
     returned |-> [k \in DOMAIN ds |-> k]]

(***************************************************************************)
(* The program: the module-level memoization cache, the layout last        *)
(* returned, its day records, which bindDaysData changes in place, and the *)
(* last bindDaysData call with the array it returned                       *)
(***************************************************************************)
NoLayout == [called |-> FALSE]

NoBind == [binds |-> 0]

NoProbe == [op |-> "none"]

EmptyCache == [k \in {} |-> k]

Args(width, height, from, to, direction, yearSpacing, daySpacing, align, firstDayOfWeek) ==
    [width |-> width, height |-> height, from |-> from, to |-> to,
     direction |-> direction, yearSpacing |-> yearSpacing, daySpacing |-> daySpacing,
     align |-> align, firstDayOfWeek |-> firstDayOfWeek]

\* the calls of computeLayout explored
LayoutInputs ==
    { \* 2018 with weeks starting on Monday (January 1st 2018 is a Monday); the
      \* height decides the cell size: (75 - 8 * 5) / 7 = 5
      Args(Num(600), Num(75), NewDate(2018, 0, 1), NewDate(2018, 11, 31),
           "horizontal", Rat(1, 2), Num(5), "top-left", 1),
      \* part of the same year, with the year spacing 0 and the day spacing 11/2;
      \* the height decides the cell size: (79 - 8 * 11/2) / 7 = 5
      Args(Num(600), Num(79), NewDate(2018, 2, 1), NewDate(2018, 5, 30),
           "horizontal", Num(0), Rat(11, 2), "top-left", 1),
      \* a leap year in a box narrower than the day spacing of one year needs:
      \* cell size (13/4 - 8 * 5) / 7 = -21/4
      Args(Rat(13, 4), Num(1000), NewDate(2020, 0, 1), NewDate(2020, 11, 31),
           "vertical", Rat(1, 2), Num(5), "top-left", 0),
      \* the same over two years, with the year spacing 0 and the day spacing
      \* 11/2: cell size (29/2 - 16 * 11/2) / 14 = -21/4
      Args(Rat(29, 2), Num(1000), NewDate(2020, 0, 1), NewDate(2021, 5, 30),
           "vertical", Num(0), Rat(11, 2), "top-left", 0) }

\* the values of the data records and the colour scales explored
Values == {1, 2}

ColorScales ==
    { [v \in Values |-> "rgb(" \o Digit(v) \o ",0,0)"],
      [v \in Values |-> IF v = 1 THEN "#61cdbb" ELSE "#f47560"] }

EmptyColors == {"#fff", "#eee"}

\* the day strings of the data records: the key of a day of 2018 and a string
\* that is the key of no day
DataDays == {"2018-01-01", "2018-1-1"}

DataRecords == [day : DataDays, value : Values]

\* the longest data array explored
MaxData == 2

RECURSIVE SeqsUpTo(_, _)
SeqsUpTo(S, n) ==
    IF n = 0 THEN {<<>>}
    ELSE LET shorter == SeqsUpTo(S, n - 1)
         IN  shorter \cup {Append(q, x) : q \in {p \in shorter : Len(p) = n - 1}, x \in S}

Init ==
    /\ cache = EmptyCache
    /\ layout = NoLayout
    /\ days = <<>>
    /\ bound = NoBind
    /\ probe = NoProbe

ComputeLayout(a) ==
    \E r \in {computeLayout(cache, a)} :
        /\ cache' = r.cache
        /\ layout' = r.layout
        /\ days' = r.days
        /\ bound' = NoBind
        /\ UNCHANGED probe

\* bindDaysData called on the day records; binds tells no call (0), one call (1)
\* or more calls (2) since the records were created
BindDaysData(data, scale, emptyColor) ==
    \E r \in {bindDaysData(days, data, scale, emptyColor)} :
        /\ days' = r.objects
        /\ bound' = [binds |-> IF bound.binds = 0 THEN 1 ELSE 2,
                     data |-> data,
                     colorScale |-> scale,
                     emptyColor |-> emptyColor,
                     returned |-> r.returned]
        /\ UNCHANGED <<cache, layout, probe>>

\* the program called with the layouts of LayoutInputs and an empty data array
Next ==
    \/ \E a \in LayoutInputs : ComputeLayout(a)
    \/ \E emptyColor \in EmptyColors, scale \in {CHOOSE f \in ColorScales : TRUE} :
            BindDaysData(<<>>, scale, emptyColor)

Spec == Init /\ [][Next]_vars

\* ---------------------------------------------------------------------------
\* bindDaysData called with the data arrays of at most MaxData records on the
\* records computeLayout creates for the first days of 2018

\* the number of day records
MaxBindDays == 3

BindDays ==
    mapDays(timeDays(NewDate(2018, 0, 1), NewDate(2018, 0, 1) + MaxBindDays),
            [cellSize |-> Num(16), originX |-> Num(0), originY |-> Num(37),
             direction |-> "horizontal", yearSpacing |-> Num(30),
             daySpacing |-> Num(2), firstDayOfWeek |-> 0],
            0)

InitBind ==
    /\ cache = EmptyCache
    /\ layout = NoLayout
    /\ days = BindDays
    /\ bound = NoBind
    /\ probe = NoProbe

NextBind ==
    \E data \in SeqsUpTo(DataRecords, MaxData), scale \in ColorScales, emptyColor \in EmptyColors :
        BindDaysData(data, scale, emptyColor)

SpecBind == InitBind /\ [][NextBind]_vars

\* ---------------------------------------------------------------------------
\* getDayIndex applied to dates around a change of year, for every first day of
\* the week

\* the number of consecutive dates explored
MaxProbeDays == 21

ProbeDates == {NewDate(2017, 11, 25) + k : k \in 0..(MaxProbeDays - 1)}

InitDayIndex ==
    /\ cache = EmptyCache
    /\ layout = NoLayout
    /\ days = <<>>
    /\ bound = NoBind
    /\ probe \in [op : {"date"}, date : ProbeDates, firstDayOfWeek : 0..6]

\* getDayIndex called on the date and on the seven consecutive days starting there
GetDayIndex ==
    /\ probe.op = "date"
    /\ probe' = [op |-> "getDayIndex",
                 date |-> probe.date,
                 firstDayOfWeek |-> probe.firstDayOfWeek,
                 index |-> getDayIndex(probe.date, probe.firstDayOfWeek),
                 week |-> [k \in 1..7 |->
                              getDayIndex(probe.date + k - 1, probe.firstDayOfWeek)]]
    /\ UNCHANGED <<cache, layout, days, bound>>

NextDayIndex == GetDayIndex

SpecDayIndex == InitDayIndex /\ [][NextDayIndex]_vars

\* ---------------------------------------------------------------------------
\* monthPathAndBBox applied to every month of some years, for every first day of
\* the week and both directions, in the second row (or column) of a calendar

\* the number of years explored, from 2018 on
MaxProbeYears == 3

ProbeYears == {2017 + k : k \in 1..MaxProbeYears}

ProbeMonthArgs(year, month, direction, firstDayOfWeek) ==
    [originX |-> Num(3),
     originY |-> Num(4),
     date |-> NewDate(year, month, 1),
     direction |-> direction,
     yearIndex |-> 1,
     yearSpacing |-> Num(30),
     daySpacing |-> Num(2),
     cellSize |-> Num(10),
     firstDayOfWeek |-> firstDayOfWeek]

InitMonth ==
    /\ cache = EmptyCache
    /\ layout = NoLayout
    /\ days = <<>>
    /\ bound = NoBind
    /\ probe \in [op : {"month"}, year : ProbeYears, month : 0..11,
                  direction : {"horizontal", "vertical"}, firstDayOfWeek : 0..6]

\* monthPathAndBBox called on the month, its locals kept beside its result, and
\* the day cells of the month's year as computeLayout positions them
MonthPathAndBBox ==
    /\ probe.op = "month"
    /\ \E a \in {ProbeMonthArgs(probe.year, probe.month, probe.direction,
                                probe.firstDayOfWeek)} :
           probe' = [op |-> "monthPathAndBBox",
                     args |-> a,
                     t1 |-> monthT1(a.date),
                     ranges |-> monthRanges(a.date, a.firstDayOfWeek),
                     commands |-> monthPathCommands(a),
                     result |-> monthPathAndBBox(a),
                     cells |-> mapDays(timeDays(NewDate(probe.year, 0, 1),
                                                NewDate(probe.year + 1, 0, 1)),
                                       a, a.yearIndex)]
    /\ UNCHANGED <<cache, layout, days, bound>>

NextMonth == MonthPathAndBBox

SpecMonth == InitMonth /\ [][NextMonth]_vars

\* ---------------------------------------------------------------------------
\* the sizes computeLayout computes in binary64 arithmetic, for boxes of integer
\* width and height and one or two years from 2018 on

\* the number of widths and of heights explored after the smallest
MaxBoxSteps == 10

BoxWidths == {100 + k : k \in 0..MaxBoxSteps} \cup {1000}

BoxHeights == {54 + k : k \in 0..MaxBoxSteps} \cup {1000}

InitSizes ==
    /\ cache = EmptyCache
    /\ layout = NoLayout
    /\ days = <<>>
    /\ bound = NoBind
    /\ probe \in [op : {"box"}, width : BoxWidths, height : BoxHeights,
                  direction : {"horizontal", "vertical"}, daySpacing : {0, 1},
                  years : {1, 2}]

ComputeSizes ==
    /\ probe.op = "box"
    /\ \E a \in {Args(probe.width, probe.height, NewDate(2018, 0, 1),
                      NewDate(2017 + probe.years, 11, 31), probe.direction,
                      30, probe.daySpacing, "center", 0)} :
           probe' = [op |-> "computeLayout", args |-> a, sizes |-> computeLayoutSizes64(a)]
    /\ UNCHANGED <<cache, layout, days, bound>>

NextSizes == ComputeSizes

SpecSizes == InitSizes /\ [][NextSizes]_vars

(***************************************************************************)
(* Properties of the layouts computeLayout returns (under Spec)            *)
(***************************************************************************)
LayoutFirstDay == NewDate(getFullYear(layout.args.from), 0, 1)

LayoutLastDay == NewDate(getFullYear(layout.args.to) + 1, 0, 1) - 1

DayKeys == {days[k].day : k \in DOMAIN days}

\* C1 as the specification states it: for from <= to the day keys are pairwise
\* distinct and there are as many Day records as calendar days between from and
\* to (counted with or without to itself)
OneDayPerDayOfRange ==
    (layout.called /\ layout.args.from <= layout.args.to) =>
        /\ Cardinality(DayKeys) = Len(days)
        /\ Len(days) \in {layout.args.to - layout.args.from,
                          layout.args.to - layout.args.from + 1}

\* C1, amended: computeLayout returns exactly one Day record per calendar day of
\* the calendar years from.year .. to.year, from January 1st of from's year to
\* December 31st of to's year, in date order, and the day keys are pairwise
\* distinct
OneDayPerDayOfYears ==
    layout.called =>
        /\ Len(days) = LayoutLastDay - LayoutFirstDay + 1
        /\ \A k \in DOMAIN days : days[k].date = LayoutFirstDay + k - 1
        /\ Cardinality(DayKeys) = Len(days)

\* a layout asked for March to June 2018 holds the 365 days of 2018
PartOfYearLayout ==
    /\ layout.called
    /\ layout.args.from = NewDate(2018, 2, 1)
    /\ layout.args.to = NewDate(2018, 5, 30)
    /\ Len(days) = 365
    /\ days[1].day = "2018-01-01"
    /\ days[365].day = "2018-12-31"

\* the week axis is x in a horizontal layout and y in a vertical one
WeekStart(m) == IF layout.args.direction = "horizontal" THEN m.bbox.x ELSE m.bbox.y

WeekExtent(m) == IF layout.args.direction = "horizontal" THEN m.bbox.width ELSE m.bbox.height

WeekEnd(m) == RAdd(WeekStart(m), WeekExtent(m))

CrossStart(m) == IF layout.args.direction = "horizontal" THEN m.bbox.y ELSE m.bbox.x

CrossExtent(m) == IF layout.args.direction = "horizontal" THEN m.bbox.height ELSE m.bbox.width

CrossEnd(m) == RAdd(CrossStart(m), CrossExtent(m))

\* the interiors of the intervals from a1 to a2 and from b1 to b2 are disjoint
Apart(a1, a2, b1, b2) ==
    \/ RLeq(RMax(a1, a2), RMin(b1, b2))
    \/ RLeq(RMax(b1, b2), RMin(a1, a2))

InteriorsDisjoint(m, n) ==
    \/ Apart(WeekStart(m), WeekEnd(m), WeekStart(n), WeekEnd(n))
    \/ Apart(CrossStart(m), CrossEnd(m), CrossStart(n), CrossEnd(n))

\* months k and k + 1 of the layout are consecutive months of one year
ConsecutiveMonths(k) ==
    /\ k \in DOMAIN layout.months
    /\ k + 1 \in DOMAIN layout.months
    /\ layout.months[k].year = layout.months[k + 1].year

\* the last day of month m is the last day of a week
EndsItsWeek(m) ==
    (getDay(NewDate(m.year, m.month + 1, 1) - 1) + 7 - layout.args.firstDayOfWeek) % 7 = 6

MonthsOfYear(i) == {layout.months[k] : k \in (12 * (i - 1) + 1)..(12 * i)}

Right(box) == RAdd(box.x, box.width)

Bottom(box) == RAdd(box.y, box.height)

\* C3: with cellSize + daySpacing >= 0 the bbox of every year is the smallest
\* rectangle containing the bboxes of the year's twelve months: each has
\* non-negative width and height and lies inside the year's bbox, and each edge
\* of the year's bbox is touched by the bbox of some month
YearBoxBoundsItsMonths ==
    (layout.called /\ RLeq(Zero, RAdd(layout.cellSize, layout.args.daySpacing))) =>
        \A i \in DOMAIN layout.years :
            LET yb == layout.years[i].bbox
            IN  /\ \A m \in MonthsOfYear(i) :
                      /\ RLeq(Zero, m.bbox.width)
                      /\ RLeq(Zero, m.bbox.height)
                      /\ RLeq(yb.x, m.bbox.x)
                      /\ RLeq(yb.y, m.bbox.y)
                      /\ RLeq(Right(m.bbox), Right(yb))
                      /\ RLeq(Bottom(m.bbox), Bottom(yb))
                /\ \E m \in MonthsOfYear(i) : m.bbox.x = yb.x
                /\ \E m \in MonthsOfYear(i) : m.bbox.y = yb.y
                /\ \E m \in MonthsOfYear(i) : Right(m.bbox) = Right(yb)
                /\ \E m \in MonthsOfYear(i) : Bottom(m.bbox) = Bottom(yb)

\* the parameter tuple computeLayout gave the memoized builder for month k
LayoutMonthArgs(k) ==
    [originX |-> layout.originX,
     originY |-> layout.originY,
     date |-> layout.months[k].date,
     direction |-> layout.args.direction,
     yearIndex |-> (k - 1) \div 12,
     yearSpacing |-> layout.args.yearSpacing,
     daySpacing |-> layout.args.daySpacing,
     cellSize |-> layout.cellSize,
     firstDayOfWeek |-> layout.args.firstDayOfWeek]

\* C6: after any sequence of computeLayout calls the path and bbox of every
\* month, which came from the memoized builder, are those monthPathAndBBox
\* returns for the same parameter tuple
MemoizedIsComputed ==
    layout.called =>
        \A k \in DOMAIN layout.months :
            [path |-> layout.months[k].path, bbox |-> layout.months[k].bbox]
                = monthPathAndBBox(LayoutMonthArgs(k))

\* the week columns the days of a year span: the largest week offset of a day of
\* the year, which is the number of first days of a week after January 1st, + 1
ColumnsSpanned(year) ==
    Cardinality({t \in (NewDate(year, 0, 1) + 1)..NewDate(year, 11, 31) :
                    getDay(t) = layout.args.firstDayOfWeek}) + 1

\* C10: maxWeeks is the largest number of week columns a year of the range spans
MaxWeeksIsColumnsSpanned ==
    layout.called =>
        /\ \A k \in DOMAIN layout.yearRange :
              ColumnsSpanned(layout.yearRange[k]) <= layout.maxWeeks
        /\ \E k \in DOMAIN layout.yearRange :
              ColumnsSpanned(layout.yearRange[k]) = layout.maxWeeks

(***************************************************************************)
(* Properties of getDayIndex (under SpecDayIndex)                          *)
(***************************************************************************)

\* C7: getDayIndex returns (nativeWeekday - firstDayOfWeek + 7) mod 7, a value
\* in 0..6, and on the seven consecutive days starting on a date whose native
\* weekday is firstDayOfWeek it returns 0, 1, 2, 3, 4, 5, 6 in order
DayIndexIsRelativeToFirstDay ==
    probe.op = "getDayIndex" =>
        /\ probe.index = (getDay(probe.date) - probe.firstDayOfWeek + 7) % 7
        /\ probe.index \in 0..6
        /\ getDay(probe.date) = probe.firstDayOfWeek =>
              probe.week = <<0, 1, 2, 3, 4, 5, 6>>

\* a week starting on a Saturday (firstDayOfWeek 6): from its second day on the
\* native weekday is less than firstDayOfWeek
WeekFromSaturday ==
    /\ probe.op = "getDayIndex"
    /\ probe.firstDayOfWeek = 6
    /\ getDay(probe.date) = 6
    /\ getDay(probe.date + 1) = 0
    /\ probe.index = 0
    /\ probe.week[2] = 1
    /\ probe.week[7] = 6

(***************************************************************************)
(* Properties of monthPathAndBBox (under SpecMonth)                        *)
(***************************************************************************)
\* the first day of the month after the month of the call
FollowingMonth == NewDate(getFullYear(probe.args.date), getMonth(probe.args.date) + 1, 1)

\* the day index the specification defines: (nativeWeekday - firstDayOfWeek + 7) mod 7
DayIndexOf(t) == (getDay(t) - probe.args.firstDayOfWeek + 7) % 7

\* the week offset of day t within its year: the first days of a week after
\* January 1st of the year of t, up to t
WeekOffsetOf(t) ==
    Cardinality({u \in (NewDate(getFullYear(t), 0, 1) + 1)..t :
                    getDay(u) = probe.args.firstDayOfWeek})

RECURSIVE PathCorners(_, _)
PathCorners(cmds, at) ==
    IF cmds = <<>> THEN <<>>
    ELSE LET visit(to) == <<to>> \o PathCorners(Tail(cmds), to)
             step(c) ==
                 CASE c.op = "M" -> [x |-> c.x, y |-> c.y]
                   [] c.op = "H" -> [x |-> c.x, y |-> at.y]
                   [] c.op = "V" -> [x |-> at.x, y |-> c.y]
                   [] c.op = "Z" -> at
         IN  visit(step(Head(cmds)))

\* the half-line from p to the right crosses the side from corner a to corner b
\* of a closed path whose sides are horizontal or vertical
CrossesSide(p, a, b) ==
    /\ a.x = b.x
    /\ RLt(p.x, a.x)
    /\ RLt(RMin(a.y, b.y), p.y)
    /\ RLt(p.y, RMax(a.y, b.y))

\* p is inside the closed path with the corners cs: the half-line from p to the
\* right crosses an odd number of its sides (the last corner is joined to the first)
InsidePath(p, cs) ==
    Cardinality({k \in DOMAIN cs : CrossesSide(p, cs[k], cs[(k % Len(cs)) + 1])}) % 2 = 1

\* the middle of the cell of a Day record
CellCentre(d) ==
    [x |-> RAdd(d.x, RDiv(d.size, Num(2))), y |-> RAdd(d.y, RDiv(d.size, Num(2)))]

\* the days of the probed year whose cell centre is inside the month's path
DaysInsidePath(cs) ==
    {k \in DOMAIN probe.cells : InsidePath(CellCentre(probe.cells[k]), cs)}

\* C8: the closed path of a month encloses the cells of exactly the days of that
\* month, among the cells of the days of the month's year
PathEnclosesTheMonth ==
    probe.op = "monthPathAndBBox" =>
        /\ probe.result.path = PathString(probe.commands)
        /\ probe.commands[Len(probe.commands)].op = "Z"
        /\ DaysInsidePath(PathCorners(probe.commands, [x |-> Zero, y |-> Zero]))
              = {k \in DOMAIN probe.cells :
                    getMonth(probe.cells[k].date) = getMonth(probe.args.date)}

\* February 2018 with weeks starting on Thursday, in a vertical calendar: the
\* month fills four whole weeks, and its 28 cells are inside its path
FourWholeWeeks ==
    /\ probe.op = "monthPathAndBBox"
    /\ probe.args.date = NewDate(2018, 1, 1)
    /\ probe.args.firstDayOfWeek = 4
    /\ probe.args.direction = "vertical"
    /\ probe.ranges.firstDay = 0
    /\ probe.ranges.lastDay = 6
    /\ Cardinality(DaysInsidePath(PathCorners(probe.commands, [x |-> Zero, y |-> Zero]))) = 28

(***************************************************************************)
(* Properties of bindDaysData (under SpecBind)                             *)
(***************************************************************************)
\* the places in the data of the last call of the records for the day with key day
Matching(day) == {j \in DOMAIN bound.data : bound.data[j].day = day}

\* the last of them in iteration order
LastMatching(day) == CHOOSE j \in Matching(day) : \A i \in Matching(day) : i <= j

\* C5: after one bindDaysData call a day no data record names has the color
\* emptyColor, and any other day has the value and data of the last data record
\* that names it and the color colorScale gives that record's value; the array
\* returned holds the same day records in the same order
LastRecordOfTheDayWins ==
    bound.binds = 1 =>
        /\ \A k \in DOMAIN days :
              IF Matching(days[k].day) = {}
              THEN days[k].color = <<bound.emptyColor>>
              ELSE /\ days[k].value = <<bound.data[LastMatching(days[k].day)].value>>
                   /\ days[k].color =
                          <<bound.colorScale[bound.data[LastMatching(days[k].day)].value]>>
                   /\ days[k].data = <<bound.data[LastMatching(days[k].day)]>>
        /\ bound.returned = [k \in DOMAIN BindDays |-> k]
        /\ [k \in DOMAIN days |->
               [days[k] EXCEPT !.value = Undefined, !.color = Undefined, !.data = Undefined]]
              = BindDays

\* one call with two records of different values for January 1st 2018: the day
\* has the second record's value, and January 2nd has the empty color
TwoRecordsForOneDay ==
    /\ bound.binds = 1
    /\ Len(bound.data) = 2
    /\ bound.data[1].day = "2018-01-01"
    /\ bound.data[2].day = "2018-01-01"
    /\ bound.data[1].value # bound.data[2].value
    /\ days[1].day = "2018-01-01"
    /\ days[1].value = <<bound.data[2].value>>
    /\ days[1].data = <<bound.data[2]>>
    /\ days[2].color = <<bound.emptyColor>>
    /\ days[2].value = Undefined

\* the day records the last bindDaysData call gives on freshly created records
FreshlyBound ==
    bindDaysData(BindDays, bound.data, bound.colorScale, bound.emptyColor).objects

\* C11: after any sequence of bindDaysData calls on the same day records, the
\* value, color and data of every day are those the last call gives on freshly
\* created day records: a day no record of the last call names has the color
\* emptyColor and no value or data of an earlier call
LastCallDeterminesTheDays ==
    bound.binds >= 1 =>
        \A k \in DOMAIN days :
            /\ days[k].color = FreshlyBound[k].color
            /\ days[k].value = FreshlyBound[k].value
            /\ days[k].data = FreshlyBound[k].data

(***************************************************************************)
(* Properties of the sizes of the calendar (under SpecSizes)               *)
(***************************************************************************)
\* the cell size that fits maxWeeks weeks in size
WeeksFit(size) ==
    F64Div(size - probe.args.daySpacing * probe.sizes.maxWeeks, probe.sizes.maxWeeks)

\* the cell size that fits the years of the range in size
YearsFit(size) ==
    F64Div(size - (Len(probe.sizes.yearRange) - 1) * probe.args.yearSpacing
                - Len(probe.sizes.yearRange) * 8 * probe.args.daySpacing,
           Len(probe.sizes.yearRange) * 7)

\* C4: cellSize is the smaller of the size that fits the width and the size that
\* fits the height, and with daySpacing >= 0, yearSpacing >= 0 and a year in the
\* range the calendar is no wider and no higher than the box
CalendarFitsTheBox ==
    probe.op = "computeLayout" =>
        /\ probe.sizes.cellSize =
              IF probe.args.direction = "horizontal"
              THEN F64Min(WeeksFit(probe.args.width), YearsFit(probe.args.height))
              ELSE F64Min(YearsFit(probe.args.width), WeeksFit(probe.args.height))
        /\ F64LeqInt(probe.sizes.calendarWidth, probe.args.width)
        /\ F64LeqInt(probe.sizes.calendarHeight, probe.args.height)

====
